---- MODULE Spec2Model ----
(***************************************************************************)
(* Cross-chain bridge processor (src/script.py): EventScanner,             *)
(* TransactionRelayer and the control loop CrossChainProcessor.run.        *)
(*                                                                         *)
(* The source chain is a growing sequence of blocks; a deposit log of a    *)
(* source transaction sits in exactly one block.  One process runs the     *)
(* control loop; a restart builds a new process from the state file.       *)
(***************************************************************************)
EXTENDS Integers, Sequences, FiniteSets, TLC

\* ------------------------------------------------------------------ bounds
\* Source transaction identifiers that may deposit.
MaxTx == 2
\* Times the chain grows after the initial state.
MaxMined == 3
\* Process restarts in one behaviour.
MaxRestarts == 1

\* ------------------------------------------------------- program constants
\* CONFIRMATION_BLOCKS default (ConfigManager.__init__).
confirmations == 12
\* The chunk literal of scan_and_process_blocks.
CHUNK == 100

TxIds == 1..MaxTx

\* Numbers of blocks by which the chain grows between two looks at it: one
\* block, or one block short of the confirmation threshold.
BlockSteps == {1, confirmations - 1}

\* Background threads one HealthChecker creates in a behaviour.
MaxThreads == 2
\* Calls of start() and stop() in a behaviour.
MaxCalls == 4

ThreadIds == 1..MaxThreads

\* Chain heights at which a behaviour of Spec starts, and of SpecBacklog.
StartHeight == 20
BacklogHeight == 500
BacklogCursor == 50

VARIABLES
    height,               \* w3.eth.block_number of the source chain
    deposit_block,        \* tx -> block holding its TokensDeposited log, 0: none yet
    mined,                \* times the chain has grown since the initial state
    state_file,           \* content of scanner_state.json
    last_scanned_block,   \* EventScanner.last_scanned_block
    pending_events,       \* EventScanner.pending_events, in insertion order
    processed_txs_cache,  \* CrossChainProcessor.processed_txs_cache
    pc,                   \* position of CrossChainProcessor.run in its cycle
    health,               \* results of this cycle's two _is_rpc_healthy probes
    confirmed_events,     \* the list run() got from scan_and_process_blocks
    idx,                  \* position of run()'s for loop in confirmed_events
    pass,                 \* this cycle's call of scan_and_process_blocks
    relay_log,            \* tx -> outcomes of relay_mint_transaction calls, all lifetimes
    returned,             \* txs returned as confirmed by some pass, all lifetimes
    start_cursor,         \* last_scanned_block when this process was constructed
    fetched,              \* blocks inside a range get_logs returned for, this lifetime
    detected,             \* txs whose log a get_logs of this lifetime returned
    restarts,             \* restarts so far
    u_pending,            \* pending_events of the same run without the restarts
    u_returned,           \* txs that run has returned as confirmed
    u_valid,              \* every restart so far reloaded the in-memory cursor
    shutdown,             \* a KeyboardInterrupt has been delivered to run()
    hc_status,            \* HealthChecker.status
    hc_thread,            \* HealthChecker._thread: 0 for None, else a thread
    hc_threads,           \* thread -> position of its _run_checks
    hc_stop_event,        \* HealthChecker._stop_event is set
    hc_caller,            \* where the caller of start()/stop() is
    hc_calls,             \* calls of start() and stop() made so far
    hc_after_stop,        \* stop() has returned and no call was made since
    hc_result             \* how the last check_func call ended

vars == <<height, deposit_block, mined, state_file, last_scanned_block,
          pending_events, processed_txs_cache, pc, health, confirmed_events,
          idx, pass, relay_log, returned, start_cursor, fetched, detected,
          restarts, u_pending, u_returned, u_valid, shutdown,
          hc_status, hc_thread, hc_threads, hc_stop_event, hc_caller, hc_calls,
          hc_after_stop, hc_result>>

chain_vars == <<height, deposit_block, mined>>
shadow_vars == <<u_pending, u_returned, u_valid>>
hc_vars == <<hc_status, hc_thread, hc_threads, hc_stop_event, hc_caller,
             hc_calls, hc_after_stop, hc_result>>
bridge_vars == <<height, deposit_block, mined, state_file, last_scanned_block,
                 pending_events, processed_txs_cache, pc, health,
                 confirmed_events, idx, pass, relay_log, returned, start_cursor,
                 fetched, detected, restarts, u_pending, u_returned, u_valid,
                 shutdown>>

\* ----------------------------------------------------------------- helpers
Min(a, b) == IF a <= b THEN a ELSE b

Range(s) == {s[i] : i \in 1..Len(s)}

\* A log record as the scanner reads it: transactionHash and blockNumber.
Event(tx, dep) == [transactionHash |-> tx, blockNumber |-> dep[tx]]

Hashes(events) == {events[i].transactionHash : i \in 1..Len(events)}

\* The state file: FileNotFoundError, JSONDecodeError, a JSON object without
\* the key, or {"last_scanned_block": n}.
FileAbsent == [kind |-> "absent", value |-> 0]
FileCorrupt == [kind |-> "corrupt", value |-> 0]
FileNoKey == [kind |-> "nokey", value |-> 0]
FileWith(n) == [kind |-> "ok", value |-> n]

NoPass == [outcome |-> "none", latest_block |-> 0, from_block |-> 0,
           to_block |-> 0, tracked |-> <<>>]

NoHealth == [source |-> "unchecked", dest |-> "unchecked"]

\* EventScanner._load_last_scanned_block
LoadLastScannedBlock(file, block_number) ==
    IF file.kind = "ok" THEN file.value ELSE block_number - 1

\* Faulty variant: the file is written with the block after the one given.
SaveLastScannedBlockAhead(block_number) == FileWith(block_number + 1)

\* EventScanner._save_last_scanned_block, when open() and json.dump succeed
SaveLastScannedBlock(block_number) == FileWith(block_number)

\* What a failed _save_last_scanned_block can leave behind: open() raised and
\* the file is as it was, or open(..., 'w') truncated it and the dump did not
\* complete.
FailedSaveFiles(file) == {file, FileCorrupt}

\* to_block of scan_and_process_blocks
ToBlock(latest_block, from_block) == Min(latest_block, from_block + CHUNK)

\* contract.events[...].get_logs(fromBlock, toBlock): logs in block order
RECURSIVE LogsOf(_, _)
LogsOf(txs, dep) ==
    IF txs = {} THEN <<>>
    ELSE LET first == CHOOSE t \in txs : \A o \in txs :
                          \/ dep[t] < dep[o]
                          \/ (dep[t] = dep[o] /\ t <= o)
         IN  <<Event(first, dep)>> \o LogsOf(txs \ {first}, dep)

GetLogs(dep, from_block, to_block) ==
    LogsOf({t \in TxIds : dep[t] >= from_block /\ dep[t] <= to_block /\ dep[t] > 0}, dep)

\* The detection loop of scan_and_process_blocks: a log joins pending_events
\* unless its transaction hash is a key already.
RECURSIVE AddPending(_, _)
AddPending(pending, logs) ==
    IF logs = <<>> THEN pending
    ELSE AddPending(
             IF Head(logs).transactionHash \in Hashes(pending)
                 THEN pending
                 ELSE Append(pending, Head(logs)),
             Tail(logs))

\* Faulty variant: the threshold compared with > instead of >=.
IsConfirmedStrict(event, current_block) ==
    current_block - event.blockNumber > confirmations

\* The test of _check_confirmations
IsConfirmed(event, current_block) ==
    current_block - event.blockNumber >= confirmations

\* EventScanner._check_confirmations: the confirmed events, and pending_events
\* after the clean-up loop.
CheckConfirmations(pending, current_block) ==
    [confirmed |-> SelectSeq(pending, LAMBDA e : IsConfirmed(e, current_block)),
     remaining |-> SelectSeq(pending, LAMBDA e : ~IsConfirmed(e, current_block))]

\* --------------------------------------------------------------- initially
\* The process has just been constructed: the cursor is loaded, nothing is
\* pending, nothing is processed.
InitAt(h, file) ==
    /\ height = h
    /\ deposit_block = [t \in TxIds |-> 0]
    /\ mined = 0
    /\ state_file = file
    /\ last_scanned_block = LoadLastScannedBlock(file, h)
    /\ pending_events = <<>>
    /\ processed_txs_cache = {}
    /\ pc = "health"
    /\ health = NoHealth
    /\ confirmed_events = <<>>
    /\ idx = 1
    /\ pass = NoPass
    /\ relay_log = [t \in TxIds |-> <<>>]
    /\ returned = {}
    /\ start_cursor = LoadLastScannedBlock(file, h)
    /\ fetched = {}
    /\ detected = {}
    /\ restarts = 0
    /\ u_pending = <<>>
    /\ u_returned = {}
    /\ u_valid = TRUE
    /\ shutdown = FALSE

\* HealthChecker.__init__: status unknown, no thread, the stop event clear.
InitHealthChecker ==
    /\ hc_status = "unknown"
    /\ hc_thread = 0
    /\ hc_threads = [t \in ThreadIds |-> "unborn"]
    /\ hc_stop_event = FALSE
    /\ hc_caller = "idle"
    /\ hc_calls = 0
    /\ hc_after_stop = FALSE
    /\ hc_result = "none"

Init ==
    /\ \E file \in {FileAbsent, FileNoKey, FileWith(StartHeight - 2)} :
           InitAt(StartHeight, file)
    /\ InitHealthChecker

\* ------------------------------------------------------------- environment
\* The source chain grows by n blocks; the first of them holds the deposit
\* logs of the next k transactions (identifiers are handed out in deposit
\* order).  The process reads the height only in scan_and_process_blocks and
\* when it is constructed, so blocks mined at any other moment are taken as
\* mined just before the cycle starts or while the process is down.
MineBlock ==
    /\ mined < MaxMined
    /\ pc \in {"health", "down"}
    /\ LET deposited == Cardinality({t \in TxIds : deposit_block[t] # 0})
       IN  \E k \in 0..(MaxTx - deposited) :
               deposit_block' = [t \in TxIds |->
                                    IF t > deposited /\ t <= deposited + k
                                        THEN height + 1 ELSE deposit_block[t]]
    /\ \E n \in BlockSteps : height' = height + n
    /\ mined' = mined + 1
    /\ UNCHANGED <<state_file, last_scanned_block, pending_events,
                   processed_txs_cache, pc, health, confirmed_events, idx, pass,
                   relay_log, returned, start_cursor, fetched, detected, restarts,
                   shadow_vars>>
    /\ UNCHANGED <<shutdown, hc_vars>>

\* ----------------------------------------------- CrossChainProcessor.run
\* The two probes of a cycle's health check.  `or` short-circuits: the
\* destination is probed only when the source is healthy.
Probes(source_ok, dest_ok) ==
    [source |-> IF source_ok THEN "healthy" ELSE "unhealthy",
     dest |-> IF ~source_ok THEN "unchecked"
              ELSE IF dest_ok THEN "healthy" ELSE "unhealthy"]

\* Faulty variant: the gate pauses only when both endpoints fail their probe.
UnhealthyBoth(h) == h.source # "healthy" /\ h.dest # "healthy"

\* The condition of run()'s health gate: not healthy(source) or not healthy(dest)
Unhealthy(h) == h.source # "healthy" \/ h.dest # "healthy"

\* Faulty variant: an exception that reaches the loop boundary ends the loop.
ExceptionEndsLoop == "stopped"

\* Where an exception raised inside a cycle takes run(): the except Exception
\* clause of the loop body, which logs, sleeps 60 s and lets the while loop go on.
AfterException == "error"

\* Start of a cycle: the health check.  An unhealthy endpoint sends the cycle
\* to its 60 s pause.
HealthCheck ==
    /\ pc = "health"
    /\ \E source_ok \in BOOLEAN, dest_ok \in BOOLEAN :
           /\ health' = Probes(source_ok, dest_ok)
           /\ pc' = IF Unhealthy(Probes(source_ok, dest_ok)) THEN "pause" ELSE "scan"
    /\ UNCHANGED <<chain_vars, state_file, last_scanned_block, pending_events,
                   processed_txs_cache, confirmed_events, idx, pass, relay_log,
                   returned, start_cursor, fetched, detected, restarts, shadow_vars>>
    /\ UNCHANGED <<shutdown, hc_vars>>

\* _is_rpc_healthy catches RequestException only: anything else a probe raises
\* leaves it and reaches run()'s except Exception.  Either probe may raise;
\* the destination is probed only after a healthy source.
HealthCheckError ==
    /\ pc = "health"
    /\ \E probe \in {"source", "dest"} :
           health' = IF probe = "source"
                         THEN [source |-> "raised", dest |-> "unchecked"]
                         ELSE [source |-> "healthy", dest |-> "raised"]
    /\ pc' = AfterException
    /\ UNCHANGED <<chain_vars, state_file, last_scanned_block, pending_events,
                   processed_txs_cache, confirmed_events, idx, pass, relay_log,
                   returned, start_cursor, fetched, detected, restarts, shadow_vars>>
    /\ UNCHANGED <<shutdown, hc_vars>>

\* time.sleep(60); continue
Pause ==
    /\ pc = "pause"
    /\ pc' = "health"
    /\ health' = NoHealth
    /\ pass' = NoPass
    /\ confirmed_events' = <<>>
    /\ idx' = 1
    /\ UNCHANGED <<chain_vars, state_file, last_scanned_block, pending_events,
                   processed_txs_cache, relay_log, returned, start_cursor,
                   fetched, detected, restarts, shadow_vars>>
    /\ UNCHANGED <<shutdown, hc_vars>>

\* ------------------------------------ EventScanner.scan_and_process_blocks
\* Faulty variant: the range starts one block late.
FromBlockLate(cursor) == cursor + 2

\* Faulty variant: the range starts at the cursor, a block already fetched.
FromBlockOverlap(cursor) == cursor

\* from_block of scan_and_process_blocks
FromBlock(cursor) == cursor + 1

\* Faulty variant: the cursor is moved to to_block although get_logs raised.
CursorMovedOnFetchError(cursor, to_block) == to_block

\* The cursor a pass leaves when get_logs raised: the except branch returns
\* before last_scanned_block is assigned.
CursorAfterFetchError(cursor, to_block) == cursor

\* pending_events when get_logs raised: the detection loop was not reached.
PendingAfterFetchError(pending, logs) == pending

\* Faulty variant: the cursor of before the pass is what gets saved.
SavedCursorStale(from_block, to_block) == from_block - 1

\* The block number scan_and_process_blocks hands to _save_last_scanned_block.
SavedCursor(from_block, to_block) == to_block

\* latest_block = self.connector.w3.eth.block_number is read outside the
\* try of scan_and_process_blocks: when it raises, the exception reaches run().
ScanHeightError ==
    /\ pc = "scan"
    /\ pass' = [NoPass EXCEPT !.outcome = "height_error"]
    /\ pc' = AfterException
    /\ UNCHANGED <<chain_vars, state_file, last_scanned_block, pending_events,
                   processed_txs_cache, health, confirmed_events, idx, relay_log,
                   returned, start_cursor, fetched, detected, restarts, shadow_vars>>
    /\ UNCHANGED <<shutdown, hc_vars>>

\* if self.last_scanned_block >= latest_block: return []
ScanNoNewBlocks ==
    /\ pc = "scan"
    /\ last_scanned_block >= height
    /\ pass' = [NoPass EXCEPT !.outcome = "no_new_blocks", !.latest_block = height]
    /\ confirmed_events' = <<>>
    /\ idx' = 1
    /\ pc' = "relay"
    /\ UNCHANGED <<chain_vars, state_file, last_scanned_block, pending_events,
                   processed_txs_cache, health, relay_log, returned,
                   start_cursor, fetched, detected, restarts, shadow_vars>>
    /\ UNCHANGED <<shutdown, hc_vars>>

\* get_logs raises: the error is logged and [] is returned.
ScanFetchError ==
    /\ pc = "scan"
    /\ last_scanned_block < height
    /\ LET from_block == FromBlock(last_scanned_block)
           to_block == ToBlock(height, from_block)
           logs == GetLogs(deposit_block, from_block, to_block)
       IN  /\ pass' = [outcome |-> "fetch_error", latest_block |-> height,
                       from_block |-> from_block, to_block |-> to_block,
                       tracked |-> <<>>]
           /\ last_scanned_block' = CursorAfterFetchError(last_scanned_block, to_block)
           /\ pending_events' = PendingAfterFetchError(pending_events, logs)
    /\ confirmed_events' = <<>>
    /\ idx' = 1
    /\ pc' = "relay"
    /\ UNCHANGED <<chain_vars, state_file, processed_txs_cache, health,
                   relay_log, returned, start_cursor, fetched, detected, restarts,
                   shadow_vars>>
    /\ UNCHANGED <<shutdown, hc_vars>>

\* The pass from a successful get_logs to the assignment of the cursor:
\* detection, _check_confirmations, last_scanned_block = to_block.
ScanFetched(file) ==
    LET from_block == FromBlock(last_scanned_block)
        to_block == ToBlock(height, from_block)
        logs == GetLogs(deposit_block, from_block, to_block)
        tracked == AddPending(pending_events, logs)
        checked == CheckConfirmations(tracked, height)
        u_checked == CheckConfirmations(AddPending(u_pending, logs), height)
    IN  /\ pc = "scan"
        /\ last_scanned_block < height
        /\ pending_events' = checked.remaining
        /\ last_scanned_block' = to_block
        /\ fetched' = fetched \cup (from_block..to_block)
        /\ detected' = detected \cup Hashes(logs)
        /\ state_file' = file
        /\ u_pending' = IF u_valid THEN u_checked.remaining ELSE <<>>
        /\ IF file = SaveLastScannedBlock(SavedCursor(from_block, to_block))
              THEN /\ pass' = [outcome |-> "ok", latest_block |-> height,
                               from_block |-> from_block, to_block |-> to_block,
                               tracked |-> tracked]
                   /\ confirmed_events' = checked.confirmed
                   /\ returned' = returned \cup Hashes(checked.confirmed)
                   /\ u_returned' = IF u_valid
                                       THEN u_returned \cup Hashes(u_checked.confirmed)
                                       ELSE {}
                   /\ pc' = "relay"
              ELSE /\ pass' = [outcome |-> "save_error", latest_block |-> height,
                               from_block |-> from_block, to_block |-> to_block,
                               tracked |-> tracked]
                   /\ confirmed_events' = <<>>
                   /\ UNCHANGED <<returned, u_returned>>
                   /\ pc' = AfterException
        /\ idx' = 1
        /\ UNCHANGED <<chain_vars, processed_txs_cache, health, relay_log,
                       start_cursor, restarts, u_valid>>
        /\ UNCHANGED <<shutdown, hc_vars>>

\* A pass that completes: the cursor is saved and the confirmed events are
\* returned to run().
PassFile ==
    LET from_block == FromBlock(last_scanned_block)
    IN  SaveLastScannedBlock(SavedCursor(from_block, ToBlock(height, from_block)))

ScanPass == ScanFetched(PassFile)

\* A pass whose _save_last_scanned_block raises: the exception leaves
\* scan_and_process_blocks and reaches run()'s except Exception.
ScanSaveError ==
    \E file \in FailedSaveFiles(state_file) :
        /\ file # PassFile
        /\ ScanFetched(file)

\* --------------------------- TransactionRelayer.relay_mint_transaction
\* "success": receipt.status == 1, the relay hash is returned.
\* "reverted": receipt.status != 1, None is returned.
\* "error": building, signing, sending or the receipt wait raised; None.
RelayOutcomes == {"success", "reverted", "error"}

\* What run() sees: a truthy relay hash, or None.
RelayReturnsHash(outcome) == outcome = "success"

\* if source_tx_hash in self.processed_txs_cache: ... continue
AlreadyProcessed(source_tx_hash, cache) == source_tx_hash \in cache

\* One iteration of run()'s for loop over confirmed_events.  relay_log notes
\* each call of relay_mint_transaction: its outcome, and whether the hash was
\* in processed_txs_cache when it was called.
Relay ==
    /\ pc = "relay"
    /\ idx <= Len(confirmed_events)
    /\ LET source_tx_hash == confirmed_events[idx].transactionHash
       IN  IF AlreadyProcessed(source_tx_hash, processed_txs_cache)
               THEN UNCHANGED <<processed_txs_cache, relay_log>>
               ELSE \E outcome \in RelayOutcomes :
                        /\ relay_log' = [relay_log EXCEPT ![source_tx_hash] =
                               Append(@, [outcome |-> outcome,
                                          processed |-> source_tx_hash \in processed_txs_cache])]
                        /\ processed_txs_cache' =
                               IF RelayReturnsHash(outcome)
                                   THEN processed_txs_cache \cup {source_tx_hash}
                                   ELSE processed_txs_cache
    /\ idx' = idx + 1
    /\ UNCHANGED <<chain_vars, state_file, last_scanned_block, pending_events,
                   pc, health, confirmed_events, pass, returned, start_cursor,
                   fetched, detected, restarts, shadow_vars>>
    /\ UNCHANGED <<shutdown, hc_vars>>

\* The for loop is over: "Cycle complete", sleep scan_interval_seconds.
CycleComplete ==
    /\ pc = "relay"
    /\ idx > Len(confirmed_events)
    /\ pc' = "health"
    /\ health' = NoHealth
    /\ pass' = NoPass
    /\ confirmed_events' = <<>>
    /\ idx' = 1
    /\ UNCHANGED <<chain_vars, state_file, last_scanned_block, pending_events,
                   processed_txs_cache, relay_log, returned, start_cursor,
                   fetched, detected, restarts, shadow_vars>>
    /\ UNCHANGED <<shutdown, hc_vars>>

\* except Exception: log critical, sleep 60, next cycle.
ErrorPause ==
    /\ pc = "error"
    /\ pc' = "health"
    /\ health' = NoHealth
    /\ pass' = NoPass
    /\ confirmed_events' = <<>>
    /\ idx' = 1
    /\ UNCHANGED <<chain_vars, state_file, last_scanned_block, pending_events,
                   processed_txs_cache, relay_log, returned, start_cursor,
                   fetched, detected, restarts, shadow_vars>>
    /\ UNCHANGED <<shutdown, hc_vars>>

\* KeyboardInterrupt between two calls of the loop body, or in one of its
\* sleeps: except KeyboardInterrupt logs "Shutdown signal received" and breaks.
Shutdown ==
    /\ pc \in {"health", "pause", "scan", "relay", "error"}
    /\ shutdown' = TRUE
    /\ pc' = "stopped"
    /\ health' = NoHealth
    /\ pass' = NoPass
    /\ confirmed_events' = <<>>
    /\ idx' = 1
    /\ UNCHANGED <<chain_vars, state_file, last_scanned_block, pending_events,
                   processed_txs_cache, relay_log, returned, start_cursor,
                   fetched, detected, restarts, shadow_vars>>
    /\ UNCHANGED hc_vars

\* KeyboardInterrupt while relay_mint_transaction waits for the receipt of a
\* transaction it has sent.  KeyboardInterrupt is not an Exception: the
\* except Exception of relay_mint_transaction does not catch it, it reaches
\* run()'s except KeyboardInterrupt, and the loop breaks.  Neither the receipt
\* nor processed_txs_cache.add is reached.
RelayInterrupted ==
    /\ pc = "relay"
    /\ idx <= Len(confirmed_events)
    /\ LET source_tx_hash == confirmed_events[idx].transactionHash
       IN  /\ ~AlreadyProcessed(source_tx_hash, processed_txs_cache)
           /\ relay_log' = [relay_log EXCEPT ![source_tx_hash] =
                  Append(@, [outcome |-> "interrupted",
                             processed |-> source_tx_hash \in processed_txs_cache])]
    /\ shutdown' = TRUE
    /\ pc' = "stopped"
    /\ health' = NoHealth
    /\ pass' = NoPass
    /\ confirmed_events' = <<>>
    /\ idx' = 1
    /\ UNCHANGED <<chain_vars, state_file, last_scanned_block, pending_events,
                   processed_txs_cache, returned, start_cursor, fetched, detected,
                   restarts, shadow_vars>>
    /\ UNCHANGED hc_vars

\* The process dies: everything it held in memory is gone.  The cursor it
\* held last stays readable to the properties until the next process starts.
Crash ==
    /\ restarts < MaxRestarts
    /\ pc \notin {"down", "stopped"}
    /\ restarts' = restarts + 1
    /\ pc' = "down"
    /\ pending_events' = <<>>
    /\ processed_txs_cache' = {}
    /\ health' = NoHealth
    /\ confirmed_events' = <<>>
    /\ idx' = 1
    /\ pass' = NoPass
    /\ UNCHANGED <<chain_vars, state_file, last_scanned_block, relay_log,
                   returned, start_cursor, fetched, detected, shadow_vars>>
    /\ UNCHANGED <<shutdown, hc_vars>>

\* The process is started again: CrossChainProcessor.__init__ builds a new
\* EventScanner (cursor from the state file, nothing pending) and an empty
\* processed_txs_cache.
Start ==
    /\ pc = "down"
    /\ pc' = "health"
    /\ last_scanned_block' = LoadLastScannedBlock(state_file, height)
    /\ start_cursor' = LoadLastScannedBlock(state_file, height)
    /\ LET reloaded == LoadLastScannedBlock(state_file, height) = last_scanned_block
       IN  /\ u_valid' = (u_valid /\ reloaded)
           /\ u_pending' = IF u_valid /\ reloaded THEN u_pending ELSE <<>>
           /\ u_returned' = IF u_valid /\ reloaded THEN u_returned ELSE {}
    /\ fetched' = {}
    /\ detected' = {}
    /\ UNCHANGED <<chain_vars, state_file, pending_events, processed_txs_cache,
                   health, confirmed_events, idx, pass, relay_log, returned,
                   restarts>>
    /\ UNCHANGED <<shutdown, hc_vars>>

Next ==
    \/ MineBlock
    \/ HealthCheck
    \/ HealthCheckError
    \/ Pause
    \/ ScanHeightError
    \/ ScanNoNewBlocks
    \/ ScanFetchError
    \/ ScanPass
    \/ ScanSaveError
    \/ Relay
    \/ CycleComplete
    \/ ErrorPause
    \/ Shutdown
    \/ RelayInterrupted
    \/ Crash
    \/ Start

Spec == Init /\ [][Next]_vars

\* The process starts far behind the chain: the state file of an earlier run
\* holds a cursor several chunks below the height.
InitBacklog ==
    /\ InitAt(BacklogHeight, FileWith(BacklogCursor))
    /\ InitHealthChecker

SpecBacklog == InitBacklog /\ [][Next]_vars

\* ----------------------------------------------------------- HealthChecker
\* threading.Thread.is_alive(): started and its target has not returned.
Alive(t) == hc_threads[t] \notin {"unborn", "dead"}

\* Threads created so far.
Started == {t \in ThreadIds : hc_threads[t] # "unborn"}

\* Faulty variant: start() creates a thread whatever the state of the last one.
StartsThreadAlways(thread) == TRUE

\* start(): if self._thread is None or not self._thread.is_alive()
StartsThread(thread) == thread = 0 \/ ~Alive(thread)

\* stop(): if self._thread and self._thread.is_alive()
StopsThread(thread) == thread # 0 /\ Alive(thread)

\* Faulty variant: a probe that raises counts as healthy.
ProbeStatusOptimistic(outcome) == IF outcome = "false" THEN "unhealthy" ELSE "healthy"

\* _run_checks: status after check_func returned True or False, or raised.
ProbeStatus(outcome) == IF outcome = "true" THEN "healthy" ELSE "unhealthy"

\* How a call of check_func ends: it returns True or False, or raises an
\* Exception.
ProbeOutcomes == {"true", "false", "raise"}

\* start(): clears the stop event, creates the thread and starts it, unless the
\* thread of an earlier start() is alive.
StartCall ==
    /\ hc_caller = "idle"
    /\ hc_calls < MaxCalls
    /\ IF StartsThread(hc_thread)
          THEN /\ Cardinality(Started) < MaxThreads
               /\ LET t == Cardinality(Started) + 1
                  IN  /\ hc_thread' = t
                      /\ hc_threads' = [hc_threads EXCEPT ![t] = "test"]
               /\ hc_stop_event' = FALSE
          ELSE UNCHANGED <<hc_thread, hc_threads, hc_stop_event>>
    /\ hc_calls' = hc_calls + 1
    /\ hc_after_stop' = FALSE
    /\ UNCHANGED <<hc_status, hc_caller, hc_result, bridge_vars>>

\* stop(): with a live thread, sets the stop event and enters join(timeout=1.0);
\* otherwise returns at once.
StopCall ==
    /\ hc_caller = "idle"
    /\ hc_calls < MaxCalls
    /\ IF StopsThread(hc_thread)
          THEN /\ hc_stop_event' = TRUE
               /\ hc_caller' = "joining"
               /\ hc_after_stop' = FALSE
          ELSE /\ hc_after_stop' = TRUE
               /\ UNCHANGED <<hc_stop_event, hc_caller>>
    /\ hc_calls' = hc_calls + 1
    /\ UNCHANGED <<hc_status, hc_thread, hc_threads, hc_result, bridge_vars>>

\* join returns because the thread has terminated; stop() returns.
JoinReturns ==
    /\ hc_caller = "joining"
    /\ ~Alive(hc_thread)
    /\ hc_caller' = "idle"
    /\ hc_after_stop' = TRUE
    /\ UNCHANGED <<hc_status, hc_thread, hc_threads, hc_stop_event, hc_calls,
                   hc_result, bridge_vars>>

\* join(timeout=1.0) returns after one second while the thread is still in
\* check_func; stop() returns all the same.
JoinTimeout ==
    /\ hc_caller = "joining"
    /\ hc_threads[hc_thread] = "probe"
    /\ hc_caller' = "idle"
    /\ hc_after_stop' = TRUE
    /\ UNCHANGED <<hc_status, hc_thread, hc_threads, hc_stop_event, hc_calls,
                   hc_result, bridge_vars>>

\* _run_checks: while not self._stop_event.is_set()
CheckStopEvent ==
    \E t \in ThreadIds :
        /\ hc_threads[t] = "test"
        /\ hc_threads' = [hc_threads EXCEPT ![t] =
                              IF hc_stop_event THEN "dead" ELSE "probe"]
        /\ UNCHANGED <<hc_status, hc_thread, hc_stop_event, hc_caller, hc_calls,
                       hc_after_stop, hc_result, bridge_vars>>

\* _run_checks: check_func ends and status is assigned, in the try or in the
\* except Exception branch; the thread goes on to _stop_event.wait(interval).
ProbeEnds ==
    \E t \in ThreadIds, outcome \in ProbeOutcomes :
        /\ hc_threads[t] = "probe"
        /\ hc_status' = ProbeStatus(outcome)
        /\ hc_result' = outcome
        /\ hc_threads' = [hc_threads EXCEPT ![t] = "wait"]
        /\ UNCHANGED <<hc_thread, hc_stop_event, hc_caller, hc_calls,
                       hc_after_stop, bridge_vars>>

\* _stop_event.wait(self.interval) returns: the interval is over or the event
\* is set.  Either way the loop condition is tested next.
WaitEnds ==
    \E t \in ThreadIds :
        /\ hc_threads[t] = "wait"
        /\ hc_threads' = [hc_threads EXCEPT ![t] = "test"]
        /\ UNCHANGED <<hc_status, hc_thread, hc_stop_event, hc_caller, hc_calls,
                       hc_after_stop, hc_result, bridge_vars>>

\* One HealthChecker, its caller, and the threads it creates.
InitHealth ==
    /\ InitAt(StartHeight, FileAbsent)
    /\ InitHealthChecker

NextHealth ==
    \/ StartCall
    \/ StopCall
    \/ JoinReturns
    \/ JoinTimeout
    \/ CheckStopEvent
    \/ ProbeEnds
    \/ WaitEnds

SpecHealth == InitHealth /\ [][NextHealth]_vars

\* ------------------------------------------------------------ properties
Successes(t) == {i \in 1..Len(relay_log[t]) : relay_log[t][i].outcome = "success"}

Age(event) == pass.latest_block - event.blockNumber

\* The events this cycle's pass found confirmed in _check_confirmations.
ConfirmedThisPass ==
    IF pass.outcome \in {"ok", "save_error"}
        THEN {e \in Range(pass.tracked) : Age(e) >= confirmations}
        ELSE {}

\* C1  No silent loss: an event that _check_confirmations has confirmed stays
\* in pending_events until a terminal outcome is recorded for it (here: its
\* hash is in processed_txs_cache).
C1_NoSilentLoss ==
    \A e \in ConfirmedThisPass :
        e.transactionHash \notin processed_txs_cache
            => e.transactionHash \in Hashes(pending_events)

\* C2  No double relay: over scan passes, fetch and save failures, relay
\* outcomes and restarts, relay_mint_transaction returns success at most once
\* per source transaction hash, and it is never called with a hash that is in
\* processed_txs_cache.
C2_NoDoubleRelay ==
    \A t \in TxIds :
        /\ Cardinality(Successes(t)) <= 1
        /\ \A i \in 1..Len(relay_log[t]) : ~relay_log[t][i].processed

\* A transaction was relayed, the process was restarted (its hash is gone
\* from the new processed_txs_cache), and the new process has completed a pass.
C2_Witness ==
    /\ restarts >= 1
    /\ pass.outcome = "ok"
    /\ \E t \in TxIds : Successes(t) # {} /\ t \notin processed_txs_cache

\* C3  Retry after a retryable relay failure: an event whose relay raised and
\* returned None is still tracked in pending_events, to be relayed again.
C3_RetryableTracked ==
    pc = "relay" =>
        \A i \in 1..(idx - 1) :
            LET t == confirmed_events[i].transactionHash
            IN  (relay_log[t] # <<>> /\ relay_log[t][Len(relay_log[t])].outcome = "error")
                    => t \in Hashes(pending_events)

\* C4  Idempotent resume: as long as every restart found the cursor it had in
\* memory in the state file, the passes have returned the same confirmed
\* events as the passes of the run that was never restarted.
C4_IdempotentResume == u_valid => returned = u_returned

\* C5  Cursor monotonicity: no step, restart included, lowers the in-memory
\* cursor or the cursor held in the state file.
C5_CursorMonotonic ==
    [][/\ last_scanned_block' >= last_scanned_block
       /\ (state_file.kind = "ok" /\ state_file'.kind = "ok")
              => state_file'.value >= state_file.value]_vars

\* C6  No skipped block: every block between the cursor the process started
\* with and its current cursor was inside the range of a get_logs call that
\* returned, and every deposit log in those blocks was handed to the scanner.
C6_NoSkippedBlock ==
    /\ \A b \in (start_cursor + 1)..last_scanned_block : b \in fetched
    /\ \A t \in TxIds :
           (deposit_block[t] > start_cursor /\ deposit_block[t] <= last_scanned_block)
               => t \in detected

\* A fetch failure in a process whose cursor has advanced over a deposit.
C6_Witness ==
    /\ pass.outcome = "fetch_error"
    /\ \E t \in TxIds :
           deposit_block[t] > start_cursor /\ deposit_block[t] <= last_scanned_block

\* C7  Bounded chunk: a pass fetches [cursor+1, min(H, cursor+CHUNK)], never
\* more than CHUNK blocks, and sets the cursor to min(H, cursor+CHUNK).
C7_BoundedChunk ==
    pass.outcome = "ok" =>
        /\ pass.to_block = Min(pass.latest_block, (pass.from_block - 1) + CHUNK)
        /\ pass.to_block - pass.from_block + 1 <= CHUNK
        /\ last_scanned_block = pass.to_block

\* C8  Confirmation rule: in a pass that completed with height H, a tracked
\* event of block b is returned iff H - b >= confirmations, and an event with
\* H - b < confirmations is not returned and stays in pending_events.
C8_ConfirmationRule ==
    pass.outcome = "ok" =>
        \A e \in Range(pass.tracked) :
            /\ (e \in Range(confirmed_events)) <=> (Age(e) >= confirmations)
            /\ (e \in Range(pending_events)) <=> (Age(e) < confirmations)

\* One pass returns an event of age exactly the threshold and keeps an event
\* one block younger pending.
C8_Witness ==
    /\ pass.outcome = "ok"
    /\ \E e1 \in Range(confirmed_events), e2 \in Range(pending_events) :
           Age(e1) = confirmations /\ Age(e2) = confirmations - 1

\* C9 (as amended)  A pass whose get_logs raises leaves the in-memory cursor,
\* the state file and pending_events as they were, and hands run() an empty
\* list through the normal return, as a pass that confirmed nothing does.
C9_FetchErrorFrame ==
    [][(pass.outcome = "none" /\ pass'.outcome = "fetch_error") =>
           /\ last_scanned_block' = last_scanned_block
           /\ state_file' = state_file
           /\ pending_events' = pending_events
           /\ confirmed_events' = <<>>
           /\ pc' = "relay"]_vars

\* A failed fetch over a range that holds a deposit log, with an event pending.
C9_Witness ==
    /\ pass.outcome = "fetch_error"
    /\ pending_events # <<>>
    /\ \E t \in TxIds :
           deposit_block[t] >= pass.from_block /\ deposit_block[t] <= pass.to_block

\* C9 (as claimed)  ... and run() can tell the failed pass from a pass that
\* completed and confirmed no event: it gets an exception or a value other
\* than the empty list.
C9_FetchErrorSurfaced ==
    pass.outcome = "fetch_error" =>
        /\ last_scanned_block = pass.from_block - 1
        /\ (pc = "error" \/ confirmed_events # <<>>)

\* C10  Health gating: a cycle whose health check found the source or the
\* destination unhealthy goes to the pause and back to the next health check;
\* it calls neither scan_and_process_blocks nor relay_mint_transaction and
\* leaves cursor, state file, pending_events and processed_txs_cache alone.
\* (A crash or a KeyboardInterrupt during the pause ends the cycle instead.)
C10_HealthGating ==
    [][(/\ pc' \notin {"down", "stopped"}
        /\ \/ pc = "pause"
           \/ (pc = "health" /\ "unhealthy" \in {health'.source, health'.dest}))
       => /\ pc = "health" => pc' = "pause"
          /\ pc = "pause" => pc' = "health"
          /\ UNCHANGED <<last_scanned_block, state_file, pending_events,
                         processed_txs_cache, pass, relay_log, returned,
                         fetched, detected>>]_vars

\* The destination alone is unhealthy while an event is pending and blocks
\* wait to be scanned.
C10_Witness ==
    /\ pc = "pause"
    /\ health.source = "healthy"
    /\ health.dest = "unhealthy"
    /\ pending_events # <<>>
    /\ last_scanned_block < height

\* C11  Retry exhaustion is terminal: an event whose destination call has
\* reverted on every attempt is, before the third attempt, still tracked for
\* the next attempt, and from the third revert on recorded in the ledger.
C11_RetryExhaustion ==
    restarts = 0 =>
        \A t \in TxIds :
            LET attempts == relay_log[t]
            IN  (/\ attempts # <<>>
                 /\ \A i \in 1..Len(attempts) : attempts[i].outcome = "reverted")
                    => IF Len(attempts) < 3
                           THEN t \in Hashes(pending_events)
                           ELSE t \in processed_txs_cache

\* An exception has been raised inside the cycle that is running.
ExceptionRaised ==
    \/ pass.outcome \in {"height_error", "save_error"}
    \/ "raised" \in {health.source, health.dest}

\* C12  The control loop survives unexpected errors: an exception raised by
\* the health check, the scan or the cursor save is caught at the loop
\* boundary (the cycle is in the except Exception handler), the handler is
\* left for the health check of a further cycle, and the loop has ended only
\* when a KeyboardInterrupt was delivered.
C12_LoopSurvives ==
    /\ [](ExceptionRaised => pc = "error")
    /\ [](pc = "stopped" => shutdown)
    /\ [][(pc = "error" /\ pc' # "error" /\ ~shutdown' /\ restarts' = restarts)
              => pc' = "health"]_vars

\* A cycle has started after the cursor save of an earlier cycle raised: the
\* file is behind the cursor in memory, and the process never restarted.
C12_Witness ==
    /\ restarts = 0
    /\ pc = "scan"
    /\ state_file.kind = "ok"
    /\ state_file.value < last_scanned_block

\* C13  No mid-transaction cancellation: when the loop has stopped, every
\* call of relay_mint_transaction that was made has run to one of its own
\* outcomes (success, revert, or an error it caught), none was cut off.
C13_NoMidRelayCancel ==
    pc = "stopped" =>
        \A t \in TxIds :
            \A i \in 1..Len(relay_log[t]) : relay_log[t][i].outcome \in RelayOutcomes

\* C17  Cursor persistence: after every scan pass that returns to run() with
\* a fetched range, the state file holds last_scanned_block, which is the
\* upper bound of that range; and the persisted value is never ahead of the
\* cursor in memory, the last block fetched.
C17_CursorPersisted ==
    /\ pass.outcome = "ok" =>
           /\ state_file = FileWith(pass.to_block)
           /\ last_scanned_block = pass.to_block
    /\ state_file.kind = "ok" => state_file.value <= last_scanned_block

\* A pass over several blocks has returned and the file holds its upper bound.
C17_Witness ==
    /\ pc = "relay"
    /\ pass.outcome = "ok"
    /\ pass.to_block > pass.from_block
    /\ state_file = FileWith(pass.to_block)
    /\ last_scanned_block = pass.to_block

\* C17 as stated: after every pass whose fetch succeeded, also one whose
\* cursor save raised, the state file equals the cursor in memory and the
\* upper bound of the range.
C17_PersistedAfterEveryFetch ==
    pass.outcome \in {"ok", "save_error"} =>
        /\ state_file = FileWith(pass.to_block)
        /\ last_scanned_block = pass.to_block

\* C18  Every event a scan pass removes from pending_events is handed to the
\* caller: an event the pass tracked and that is no longer in pending_events
\* is in the list run() iterates over, also when the state-file write failed.
C18_RemovedEventsReturned ==
    \A e \in Range(pass.tracked) :
        e.transactionHash \notin Hashes(pending_events)
            => e \in Range(confirmed_events)

\* C19  Within one process lifetime the ranges of successful fetches are
\* pairwise disjoint, no transaction is returned as confirmed by a second
\* pass, and no transaction is in pending_events and in processed_txs_cache
\* at the same time.
C19_DisjointRanges ==
    /\ [][(pass.outcome = "none" /\ pass'.outcome \in {"ok", "save_error"}) =>
              /\ (pass'.from_block..pass'.to_block) \cap fetched = {}
              /\ restarts' = 0 => Hashes(confirmed_events') \cap returned = {}]_vars
    /\ [](Hashes(pending_events) \cap processed_txs_cache = {})

\* A second pass of the same lifetime returns a confirmed event while the
\* event of an earlier pass is in processed_txs_cache.
C19_Witness ==
    /\ restarts = 0
    /\ pass.outcome = "ok"
    /\ fetched # (pass.from_block..pass.to_block)
    /\ confirmed_events # <<>>
    /\ processed_txs_cache # {}
    /\ Hashes(confirmed_events) \cap processed_txs_cache = {}

\* C20  Scan liveness, its safety core: without a restart, a transaction
\* logged above the starting cursor and not yet returned as confirmed can
\* still be returned, that is, it is tracked in pending_events or its block
\* is above the cursor.  A transaction for which this fails is never
\* returned: the cursor does not go back and nothing re-enters pending_events.
C20_ScanLiveness ==
    restarts = 0 =>
        \A t \in TxIds :
            (deposit_block[t] > start_cursor /\ t \notin returned)
                => \/ t \in Hashes(pending_events)
                   \/ deposit_block[t] > last_scanned_block

\* C14  stop() ends the background activity: after stop() has returned, and
\* until the next call, no thread of the HealthChecker is alive, so no probe
\* runs and status is not written.
C14_StopEndsThread ==
    hc_after_stop => \A t \in ThreadIds : ~Alive(t)

\* A step that is a call of start(), and one that is a call of stop().
StartStep == hc_calls' # hc_calls /\ hc_caller' = "idle" /\ ~hc_after_stop'
StopStep == hc_calls' # hc_calls /\ (hc_caller' = "joining" \/ hc_after_stop')

\* C15  start() and stop() are idempotent: start() with a live thread and
\* stop() with no live thread change nothing of the monitor, and at most one
\* thread is alive at a time.
C15_Idempotent ==
    /\ [][((StartStep /\ hc_thread # 0 /\ Alive(hc_thread))
               \/ (StopStep /\ (hc_thread = 0 \/ ~Alive(hc_thread))))
              => UNCHANGED <<hc_status, hc_thread, hc_threads, hc_stop_event>>]_vars
    /\ [](Cardinality({t \in ThreadIds : Alive(t)}) <= 1)

\* A second thread runs after the first has terminated, and start() has been
\* called on it once more.
C15_Witness ==
    /\ hc_thread = 2
    /\ hc_threads[1] = "dead"
    /\ Alive(2)
    /\ hc_calls = MaxCalls
    /\ ~hc_after_stop
    /\ hc_caller = "idle"

\* C16  A throwing probe means unhealthy: status is what the last call of
\* check_func gave (healthy for True, unhealthy for False and for a raise),
\* and whatever the outcome the thread goes on to wait for the interval, then
\* tests the stop event and, when it is clear, probes again.
C16_ProbeOutcome ==
    /\ [](hc_status = CASE hc_result = "none" -> "unknown"
                         [] hc_result = "true" -> "healthy"
                         [] OTHER -> "unhealthy")
    /\ [][\A t \in ThreadIds :
              /\ (hc_threads[t] = "probe" /\ hc_threads'[t] # "probe")
                     => hc_threads'[t] = "wait"
              /\ (hc_threads[t] = "wait" /\ hc_threads'[t] # "wait")
                     => hc_threads'[t] = "test"
              /\ (hc_threads[t] = "test" /\ hc_threads'[t] # "test" /\ ~hc_stop_event)
                     => hc_threads'[t] = "probe"]_vars

\* check_func raised, status is unhealthy, and the same thread is probing again.
C16_Witness ==
    /\ hc_result = "raise"
    /\ hc_status = "unhealthy"
    /\ hc_thread # 0
    /\ hc_threads[hc_thread] = "probe"

\* start() was the last call made and it has returned.
AfterStart == hc_calls > 0 /\ hc_caller = "idle" /\ ~hc_after_stop

\* C21  start() always leaves the monitor running: after start() has
\* returned, and until the next call, the thread of the HealthChecker is alive
\* and the stop event is clear.
C21_StartLeavesRunning ==
    AfterStart =>
        /\ hc_thread # 0
        /\ Alive(hc_thread)
        /\ ~hc_stop_event
====
